---- MODULE Spec2Model ----
(***************************************************************************)
(* File Organizer (src/main.py): the Start / Stop handlers of App, the     *)
(* background worker App._worker with its end-of-run step App._finish,    *)
(* and the file system the worker moves or copies entries in.             *)
(*                                                                         *)
(* The controlling context (Tk main loop) runs start, stop and the form   *)
(* edits; every accepted Start spawns one worker thread.  A worker is     *)
(* modelled statement group by statement group (its pc), so that the main *)
(* loop and other workers interleave with it where the threads can.       *)
(***************************************************************************)
EXTENDS Integers, Sequences, FiniteSets, TLC

(* ------------------------------ bounds -------------------------------- *)
\* accepted Start requests (worker threads ever spawned)
MaxRuns == 3
\* edits of the form (source entry, destination pickers, mode radio buttons)
MaxEdits == 1
\* disturbances from outside: the source directory is removed, or the
\* operating system refuses a transfer
MaxFaults == 1

Runs == 1..MaxRuns

(* --------------------------- extension sets --------------------------- *)
IMAGE_EXT == {".jpg", ".jpeg", ".png", ".gif", ".bmp", ".tiff", ".svg", ".webp", ".heic", ".raw"}
VIDEO_EXT == {".mp4", ".avi", ".mkv", ".mov", ".wmv", ".flv", ".webm", ".mpeg", ".mpg", ".3gp"}
AUDIO_EXT == {".mp3", ".wav", ".flac", ".aac", ".ogg", ".wma", ".m4a"}
SETUP_EXT == {".exe", ".msi", ".dmg", ".pkg", ".deb"}
DOC_EXT == {".pdf", ".doc", ".docx", ".xls", ".xlsx", ".ppt", ".pptx", ".txt"}
COMPRESSED_EXT == {".zip", ".rar", ".7z", ".tar", ".gz"}

\* the six destination variables of the form, in the order start() tests them
DestVars == {"images_var", "audio_var", "setup_var", "docs_var", "compressed_var", "others_var"}

\* str.lower() on the suffixes that occur in the model
Lower(s) ==
    CASE s = ".JPG" -> ".jpg"
      [] s = ".Txt" -> ".txt"
      [] s = ".Mp4" -> ".mp4"
      [] s = ".MP3" -> ".mp3"
      [] s = ".EXE" -> ".exe"
      [] s = ".Zip" -> ".zip"
      [] s = ".XYZ" -> ".xyz"
      [] OTHER -> s

\* the destination variable the file branch of _worker reads for a suffix
DestVarOfSuffix(suf) ==
    LET ext == Lower(suf) IN
    IF ext \in IMAGE_EXT \/ ext \in VIDEO_EXT THEN "images_var"
    ELSE IF ext \in DOC_EXT THEN "docs_var"
    ELSE IF ext \in AUDIO_EXT THEN "audio_var"
    ELSE IF ext \in SETUP_EXT THEN "setup_var"
    ELSE IF ext \in COMPRESSED_EXT THEN "compressed_var"
    ELSE "others_var"

(* ----------------------------- file system ---------------------------- *)
\* A name is kept as pathlib splits it: Path.stem and Path.suffix.
MkName(st, su) == [stem |-> st, suffix |-> su]
FullName(n) == n.stem \o n.suffix

\* A directory entry: its name, its kind, its content, and (for a
\* directory) the names that were moved or copied into it.
MkEntry(n, k, d) == [name |-> n, kind |-> k, data |-> d, inside |-> {}]

EntA == MkEntry(MkName("a", ".JPG"), "file", "a-src")
EntN == MkEntry(MkName("notes", ".zip"), "dir", "notes-src")
EntOldA == MkEntry(MkName("a", ".JPG"), "file", "a-old")
\* entries that someone else creates while the program runs
EntB == MkEntry(MkName("b", ".Txt"), "file", "b-new")
EntA1 == MkEntry(MkName("a(1)", ".JPG"), "file", "a-foreign")

\* the paths the form can name
PSrc == "/src"
PEmpty == "/empty"
PD1 == "/d1"
PD2 == "/d2"
PGone == "/gone"
PFile == "/file"
Paths == {PSrc, PEmpty, PD1, PD2, PGone, PFile}

MkDir(ents) == [kind |-> "dir", ents |-> ents]
NoPath == [kind |-> "absent", ents |-> {}]
RegularFile == [kind |-> "file", ents |-> {}]

IsDir(fsx, p) == p \in Paths /\ fsx[p].kind = "dir"
PathExists(fsx, p) == p \in Paths /\ fsx[p].kind # "absent"

\* the entries of directory p named nm (none or one)
Lookup(fsx, p, nm) ==
    IF IsDir(fsx, p) THEN {e \in fsx[p].ents : FullName(e.name) = nm} ELSE {}
EntryExists(fsx, p, nm) == Lookup(fsx, p, nm) # {}

Paren(i) == "(" \o ToString(i) \o ")"

(* ------------------- target resolution (lines 472-511) ---------------- *)
\* the file's way of numbering, f"{base}({i}){suf}", used for folders too
CandidateBeforeSuffix(n, isdir, i) == MkName(n.stem \o Paren(i), n.suffix)

\* the i-th disambiguated name: f"{base}({i}){suf}" for a file (line 509),
\* f"{f.name}({i})" for a folder (line 478), kept as pathlib would split it
Candidate(n, isdir, i) ==
    IF isdir
    THEN IF n.suffix = "" THEN MkName(n.stem \o Paren(i), "")
                          ELSE MkName(n.stem, n.suffix \o Paren(i))
    ELSE MkName(n.stem \o Paren(i), n.suffix)

\* the while loops of lines 477-479 and 508-510
RECURSIVE FirstFree(_, _, _, _, _)
FirstFree(fsx, d, n, isdir, i) ==
    IF EntryExists(fsx, d, FullName(Candidate(n, isdir, i)))
    THEN FirstFree(fsx, d, n, isdir, i + 1)
    ELSE i

\* f.is_dir() of line 472: false also when the entry is no longer there
ItemIsDir(fsx, src, n) == \E e \in Lookup(fsx, src, FullName(n)) : e.kind = "dir"

\* the file branch taken for folders too
DestForByName(dst, isdir, n) == dst[DestVarOfSuffix(n.suffix)]

\* the destination directory read from the form for the item
DestFor(dst, isdir, n) ==
    IF isdir THEN dst["others_var"] ELSE dst[DestVarOfSuffix(n.suffix)]

\* the target of lines 475-480 and 505-511
ResolveTarget(fsx, d, n, isdir) ==
    IF EntryExists(fsx, d, FullName(n))
    THEN Candidate(n, isdir, FirstFree(fsx, d, n, isdir, 1))
    ELSE n

(* ------------------ the transfer itself (lines 482-518) --------------- *)
RemoveEntry(fsx, p, nm) ==
    [fsx EXCEPT ![p].ents = {e \in @ : FullName(e.name) # nm}]

\* the write that never reaches the destination
PutEntryNowhere(fsx, d, tn, e, create) == fsx

\* put entry e under name tn in directory d, creating d when told to and
\* replacing whatever file already has that name
PutEntry(fsx, d, tn, e, create) ==
    LET base == IF create THEN [fsx EXCEPT ![d] = MkDir({})] ELSE fsx
        put == [e EXCEPT !.name = tn]
    IN [base EXCEPT ![d].ents = {x \in @ : FullName(x.name) # FullName(tn)} \cup {put}]

\* put the name of e inside the directory entry called tn of directory d
PutInside(fsx, d, tn, e) ==
    [fsx EXCEPT ![d].ents =
        {IF FullName(x.name) = FullName(tn)
            THEN [x EXCEPT !.inside = @ \cup {FullName(e.name)}] ELSE x : x \in @}]

\* copy semantics in both modes: the source entry stays
SourceAfterCopied(fsx, src, nm, mode) == fsx

\* move semantics in both modes: the source entry goes
SourceAfterMoved(fsx, src, nm, mode) == RemoveEntry(fsx, src, nm)

\* the source side of a transfer: shutil.move takes the entry out of the
\* source directory, shutil.copytree and shutil.copy2 leave it there
SourceAfter(fsx, src, nm, mode) ==
    IF mode = "move" THEN RemoveEntry(fsx, src, nm) ELSE fsx

Failed(fsx) == [ok |-> FALSE, fs |-> fsx]
Done(fsx) == [ok |-> TRUE, fs |-> fsx]

\* shutil.move / shutil.copytree / shutil.copy2 of the entry named n of
\* directory src to d/tn.  isdir is the branch of _worker that was taken.
ShutilTransfer(fsx, src, n, isdir, d, tn, mode) ==
    LET here == Lookup(fsx, src, FullName(n))
        there == Lookup(fsx, d, FullName(tn))
    IN
    IF here = {} THEN Failed(fsx)                      \* source vanished
    ELSE LET e == CHOOSE x \in here : TRUE
             gone == SourceAfter(fsx, src, FullName(n), mode)
         IN
         IF d \notin Paths THEN Failed(fsx)
         ELSE IF ~IsDir(fsx, d) THEN
              \* a file cannot be written below a missing directory; copytree
              \* (also the fallback of move) creates the missing directories
              IF e.kind = "dir" /\ isdir /\ fsx[d].kind = "absent" /\ d # src
              THEN Done(PutEntry(gone, d, tn, e, TRUE))
              ELSE Failed(fsx)
         ELSE IF e.kind = "file" /\ isdir /\ mode = "copy" THEN Failed(fsx) \* copytree of a file
         ELSE IF e.kind = "dir" /\ ~isdir /\ mode = "copy" THEN Failed(fsx) \* copy2 of a folder
         ELSE IF there = {} THEN Done(PutEntry(gone, d, tn, e, FALSE))
         ELSE LET t == CHOOSE x \in there : TRUE IN
              IF t.kind = "file"
              THEN IF e.kind = "file"
                   THEN Done(PutEntry(gone, d, tn, e, FALSE))  \* overwritten
                   ELSE Failed(fsx)        \* a folder onto a file
              ELSE \* the target is an existing directory
                   IF e.kind = "dir" /\ mode = "copy" THEN Failed(fsx)
                   ELSE IF mode = "move" /\ FullName(e.name) \in t.inside
                        THEN Failed(fsx)   \* "already exists"
                        ELSE Done(PutInside(gone, d, tn, e))

(* ------------------------ statistics (lines 328-401) ------------------ *)
\* scan_sizes: "not found", or the number of files below the source
ScanSizes(fsx, source) ==
    IF ~PathExists(fsx, source) THEN "Source folder does not exist"
    ELSE IF ~IsDir(fsx, source) THEN "0 files"
    ELSE LET files == {e \in fsx[source].ents : e.kind = "file"}
             nested == UNION {{<<FullName(e.name), x>> : x \in e.inside} :
                                e \in fsx[source].ents}
         IN ToString(Cardinality(files) + Cardinality(nested)) \o " files"

(* ------------------------------- state -------------------------------- *)
VARIABLES
    running,      \* self.running: the running flag, which is also the cancellation flag
    start_btn,    \* state of the Start button
    stop_btn,     \* state of the Stop button
    source_var,   \* the source folder of the form
    mode_var,     \* "move" or "copy"
    dest_vars,    \* the six destination folders of the form ("" = not chosen)
    log_box,      \* the lines of the operation log
    stats_box,    \* what scan_sizes displayed last
    fs,           \* the directories the form can name
    listing,      \* the order in which the file system lists names
    w,            \* the worker threads, one per accepted Start
    edits,        \* edits of the form so far
    faults,       \* disturbances from outside so far
    lastEvent,    \* history: "start" / "stop" right after that button was used
    hist,         \* history: per run, what was asked of it and what it did
    probe         \* a classification or target resolution applied on its own

vars == <<running, start_btn, stop_btn, source_var, mode_var, dest_vars, log_box,
          stats_box, fs, listing, w, edits, faults, lastEvent, hist, probe>>

ui == <<start_btn, stop_btn>>
form == <<source_var, mode_var, dest_vars>>
counters == <<edits, faults>>
env == <<listing, probe>>

NoTarget == [dir |-> "", name |-> MkName("", "")]
NoWorker == [pc |-> "none", src |-> "", items |-> <<>>, total |-> 0, processed |-> 0,
             isdir |-> FALSE, target |-> NoTarget, again |-> FALSE]

\* the worker on entering _finish: the locals of the loop are not used again
Finishing(again) == [NoWorker EXCEPT !.pc = "finish_flags", !.again = again]

\* the history kept for one run
NoHist == [mode0 |-> "", dest0 |-> <<>>, stopped |-> FALSE, cancelAt |-> -1,
           cancelIn |-> 0, enumerated |-> FALSE, xfers |-> {}]

\* no function is being applied on its own
NoProbe == [op |-> "none"]

\* where a worker is before it enters _finish
InRun == {"enum", "empty", "except", "check", "resolve", "transfer", "summary"}

Spawned == {r \in Runs : w[r].pc # "none"}
Alive == {r \in Runs : w[r].pc \notin {"none", "done"}}

Line(k, nm, tgt, n) == [kind |-> k, name |-> nm, target |-> tgt, n |-> n]
TargetPath(t) == t.dir \o "/" \o FullName(t.name)

(* ------------------------- the form as filled in ---------------------- *)
AllTo(p) == [v \in DestVars |-> p]
DestConfigs ==
    { AllTo(PD1),
      [AllTo(PD1) EXCEPT !["images_var"] = PGone, !["others_var"] = PGone],
      [AllTo(PD1) EXCEPT !["audio_var"] = ""] }
\* what the edits of the form choose among
EditedVars == {"others_var"}
DestChoices == {PD2}
SourceChoices == {PSrc}
SourceSets == {{EntA, EntN}}
DestSets == {{EntOldA}}
\* the source and the destinations of the form when the first Start is pressed
FormsFilled == ({PSrc, PFile} \X DestConfigs) \cup {<<PEmpty, AllTo(PD1)>>}
Listings == {<<EntA.name, EntN.name, EntB.name>>, <<EntB.name, EntN.name, EntA.name>>}

Init ==
    /\ running = FALSE
    /\ start_btn = "normal"
    /\ stop_btn = "disabled"
    /\ mode_var = "move"
    /\ \E f \in FormsFilled : source_var = f[1] /\ dest_vars = f[2]
    /\ listing \in Listings
    /\ log_box = <<>>
    /\ \E s \in SourceSets, d \in DestSets :
          fs = [p \in Paths |->
                  CASE p = PSrc -> MkDir(s)
                    [] p = PD1 -> MkDir(d)
                    [] p = PD2 -> MkDir({})
                    [] p = PEmpty -> MkDir({})
                    [] p = PFile -> RegularFile
                    [] OTHER -> NoPath]
    /\ stats_box = ScanSizes(fs, source_var)
    /\ w = [r \in Runs |-> NoWorker]
    /\ edits = 0
    /\ faults = 0
    /\ lastEvent = "other"
    /\ hist = [r \in Runs |-> NoHist]
    /\ probe = NoProbe

(* -------------------- the controlling context (Tk) -------------------- *)
\* the test of line 425 without "or not src.is_dir()"
SourceOkExistsOnly(fsx, source) == PathExists(fsx, source)

\* line 425: src.exists() and src.is_dir()
SourceOk(fsx, source) == IsDir(fsx, source)

\* the list of lines 428-429 with audio_var left out
DestsChosenButAudio(dst) == \A v \in DestVars \ {"audio_var"} : dst[v] # ""

\* lines 428-429: all([...get()]) over the six destination variables
DestsChosen(dst) == \A v \in DestVars : dst[v] # ""

\* lines 434-446: the accepted Start
AcceptStart ==
    LET r == Cardinality(Spawned) + 1 IN
    /\ running' = TRUE
    /\ start_btn' = "disabled"
    /\ stop_btn' = "normal"
    /\ log_box' = <<>>
    /\ w' = [w EXCEPT ![r] = [NoWorker EXCEPT !.pc = "enum", !.src = source_var]]
    /\ hist' = [hist EXCEPT ![r] = [NoHist EXCEPT !.mode0 = mode_var, !.dest0 = dest_vars]]

\* App.start, the command of the Start button (a disabled button does not
\* invoke its command)
Start ==
    /\ start_btn = "normal"
    /\ Cardinality(Spawned) < MaxRuns
    /\ lastEvent' = "start"
    /\ IF running
       THEN UNCHANGED <<running, ui, log_box, w, hist>>
       ELSE IF ~SourceOk(fs, source_var)
       THEN UNCHANGED <<running, ui, log_box, w, hist>>
       ELSE IF ~DestsChosen(dest_vars)
       THEN UNCHANGED <<running, ui, log_box, w, hist>>
       ELSE AcceptStart
    /\ UNCHANGED <<form, stats_box, env, fs, counters>>

\* history of a Stop click that cleared the flag: the runs it reached, and
\* where they were
NoteStop(h, wr) ==
    LET first == ~h.stopped IN
    [h EXCEPT !.stopped = TRUE,
              !.cancelAt = IF first /\ wr.pc = "check" THEN wr.processed ELSE @,
              !.cancelIn = IF first /\ wr.pc \in {"resolve", "transfer"}
                           THEN wr.processed + 1 ELSE @]

\* App.stop, the command of the Stop button
Stop ==
    /\ stop_btn = "normal"
    /\ lastEvent' = "stop"
    /\ IF ~running
       THEN UNCHANGED <<running, log_box, stop_btn, hist>>
       ELSE /\ running' = FALSE
            /\ log_box' = Append(log_box, Line("Stopping", "", "", 0))
            /\ stop_btn' = "disabled"
            /\ hist' = [r \in Runs |-> IF w[r].pc \in InRun
                                        THEN NoteStop(hist[r], w[r]) ELSE hist[r]]
    /\ UNCHANGED <<start_btn, form, stats_box, env, fs, w, counters>>

\* the mode radio buttons (lines 266-267)
SetMode(m) ==
    /\ edits < MaxEdits
    /\ m # mode_var
    /\ mode_var' = m
    /\ edits' = edits + 1
    /\ lastEvent' = "other"
    /\ UNCHANGED <<running, ui, source_var, dest_vars, log_box, stats_box, env, fs, w,
                   faults, hist>>

\* choose_dest (lines 410-413)
ChooseDest(v, p) ==
    /\ edits < MaxEdits
    /\ p # dest_vars[v]
    /\ dest_vars' = [dest_vars EXCEPT ![v] = p]
    /\ edits' = edits + 1
    /\ lastEvent' = "other"
    /\ UNCHANGED <<running, ui, source_var, mode_var, log_box, stats_box, env, fs, w,
                   faults, hist>>

\* the source entry field (line 192)
EditSource(p) ==
    /\ edits < MaxEdits
    /\ p # source_var
    /\ source_var' = p
    /\ edits' = edits + 1
    /\ lastEvent' = "other"
    /\ UNCHANGED <<running, ui, mode_var, dest_vars, log_box, stats_box, env, fs, w,
                   faults, hist>>

(* ---------------------------- environment ----------------------------- *)
\* the source directory is removed by someone else
RemoveSource ==
    /\ faults < MaxFaults
    /\ IsDir(fs, PSrc)
    /\ fs' = [fs EXCEPT ![PSrc] = NoPath]
    /\ faults' = faults + 1
    /\ lastEvent' = "other"
    /\ UNCHANGED <<running, ui, form, log_box, stats_box, env, w, edits, hist>>

\* what someone else creates, and where
Foreign == {<<PSrc, EntB>>, <<PD1, EntA1>>}

\* an entry is created by someone else, under a free name, where a run
\* meets it: in the source of a run that is in its loop, or at the target a
\* run has resolved and not yet written
ForeignCreate(p, e) ==
    /\ faults < MaxFaults
    /\ \E r \in Runs :
          \/ w[r].pc \in {"check", "resolve", "transfer"} /\ w[r].src = p
          \/ w[r].pc = "transfer" /\ w[r].target = [dir |-> p, name |-> e.name]
    /\ IsDir(fs, p)
    /\ ~EntryExists(fs, p, FullName(e.name))
    /\ \A q \in Paths : \A x \in fs[q].ents : x.data # e.data    \* a new content
    /\ fs' = [fs EXCEPT ![p].ents = @ \cup {e}]
    /\ faults' = faults + 1
    /\ lastEvent' = "other"
    /\ UNCHANGED <<running, ui, form, log_box, stats_box, env, w, edits, hist>>

(* --------------------- the worker thread (_worker) -------------------- *)
\* an enumeration that sees the files only
ListedFiles(S, order) ==
    SelectSeq(order, LAMBDA n : \E e \in S : e.name = n /\ e.kind = "file")

\* list(src.iterdir()): the names of S in the order the file system lists them
RECURSIVE Listed(_, _)
Listed(S, order) ==
    IF order = <<>> THEN <<>>
    ELSE LET rest == Listed(S, Tail(order)) IN
         IF \E e \in S : e.name = Head(order) THEN <<Head(order)>> \o rest ELSE rest

\* lines 457-466: list the source once, set up the counters
Enumerate(r) ==
    /\ w[r].pc = "enum"
    /\ lastEvent' = "other"
    /\ IF ~IsDir(fs, w[r].src)
       THEN /\ w' = [w EXCEPT ![r].pc = "except"]     \* iterdir raises
            /\ hist' = hist
       ELSE /\ LET o == Listed(fs[w[r].src].ents, listing) IN
                 w' = [w EXCEPT ![r].items = o, ![r].total = Len(o), ![r].processed = 0,
                                ![r].pc = IF Len(o) = 0 THEN "empty" ELSE "check"]
            /\ hist' = [hist EXCEPT ![r].enumerated = TRUE]
    /\ UNCHANGED <<running, ui, form, log_box, stats_box, env, fs, counters>>

\* lines 459-462: nothing to do; _finish is called here and again by finally
Empty(r) ==
    /\ w[r].pc = "empty"
    /\ log_box' = Append(log_box, Line("No items", "", "", 0))
    /\ w' = [w EXCEPT ![r] = Finishing(TRUE)]
    /\ hist' = [hist EXCEPT ![r] = NoHist]
    /\ lastEvent' = "other"
    /\ UNCHANGED <<running, ui, form, stats_box, env, fs, counters>>

\* a loop that ends one item early
LoopHeadStopsEarly(wr, flag) ==
    IF wr.processed + 1 >= wr.total THEN "summary"
    ELSE IF ~flag THEN "summary"
    ELSE "resolve"

\* lines 468-470: the head of the loop; the flag is polled once per item
LoopHead(wr, flag) ==
    IF wr.processed = wr.total THEN "summary"
    ELSE IF ~flag THEN "summary"
    ELSE "resolve"

Check(r) ==
    /\ w[r].pc = "check"
    /\ w' = [w EXCEPT ![r].pc = LoopHead(w[r], running)]
    /\ lastEvent' = "other"
    /\ UNCHANGED <<running, ui, form, log_box, stats_box, env, fs, counters, hist>>

\* the item of the current iteration
Item(wr) == wr.items[wr.processed + 1]

\* lines 472-480 and 491-511: branch, destination and target of the item
Resolve(r) ==
    LET n == Item(w[r])
        isdir == ItemIsDir(fs, w[r].src, n)
        d == DestFor(dest_vars, isdir, n)
    IN
    /\ w[r].pc = "resolve"
    /\ w' = [w EXCEPT ![r].isdir = isdir,
                      ![r].target = [dir |-> d, name |-> ResolveTarget(fs, d, n, isdir)],
                      ![r].pc = "transfer"]
    /\ lastEvent' = "other"
    /\ UNCHANGED <<running, ui, form, log_box, stats_box, env, fs, counters, hist>>

\* the log line of lines 484, 487, 515, 518 and 521
ItemLine(n, isdir, t, mode, ok) ==
    IF ~ok THEN Line("Error processing", FullName(n), "", 0)
    ELSE Line(CASE mode = "move" /\ isdir -> "Moved folder"
                [] mode = "move" /\ ~isdir -> "Moved"
                [] mode # "move" /\ isdir -> "Copied folder"
                [] OTHER -> "Copied",
              FullName(n), TargetPath(t), 0)

\* a failure that escapes to the outer handler of line 536
AfterItemAborts(ok) == IF ok THEN "check" ELSE "except"

\* where the worker goes after an item, failed or not (lines 520-529)
AfterItem(ok) == "check"

\* lines 482-487 and 513-529: transfer the item, log it, count it.
\* envFails: the operating system refuses the transfer (permissions, disk).
Transfer(r) ==
    LET n == Item(w[r])
        t == w[r].target
        here == Lookup(fs, w[r].src, FullName(n))
        data == IF here = {} THEN "" ELSE (CHOOSE e \in here : TRUE).data
    IN
    /\ w[r].pc = "transfer"
    /\ \E envFails \in {b \in BOOLEAN : b => faults < MaxFaults} :
         LET res == IF envFails THEN Failed(fs)
                    ELSE ShutilTransfer(fs, w[r].src, n, w[r].isdir, t.dir, t.name, mode_var)
         IN /\ fs' = res.fs
            /\ log_box' = Append(log_box, ItemLine(n, w[r].isdir, t, mode_var, res.ok))
            /\ w' = [w EXCEPT ![r].processed = @ + 1, ![r].pc = AfterItem(res.ok)]
            /\ hist' = [hist EXCEPT ![r].xfers = @ \cup
                          {[name |-> n, isdir |-> w[r].isdir, mode |-> mode_var,
                            dir |-> t.dir, tname |-> t.name, data |-> data,
                            ok |-> res.ok]}]
            /\ faults' = IF envFails THEN faults + 1 ELSE faults
    /\ lastEvent' = "other"
    /\ UNCHANGED <<running, ui, form, stats_box, env, edits>>

\* lines 531-534: the summary line
SummaryKind(flag) == IF ~flag THEN "stopped" ELSE "completed"

Summary(r) ==
    /\ w[r].pc = "summary"
    /\ log_box' = Append(log_box, Line("Operation " \o SummaryKind(running), "", "",
                                       IF running THEN w[r].processed ELSE 0))
    /\ hist' = [hist EXCEPT ![r] = NoHist]
    /\ w' = [w EXCEPT ![r] = Finishing(FALSE)]
    /\ lastEvent' = "other"
    /\ UNCHANGED <<running, ui, form, stats_box, env, fs, counters>>

\* an outer handler without the finally clause: the worker just returns
ExceptReturns(r) ==
    /\ w[r].pc = "except"
    /\ log_box' = Append(log_box, Line("Error", "", "", 0))
    /\ hist' = [hist EXCEPT ![r] = NoHist]
    /\ w' = [w EXCEPT ![r] = [NoWorker EXCEPT !.pc = "done"]]
    /\ lastEvent' = "other"
    /\ UNCHANGED <<running, ui, form, stats_box, env, fs, counters>>

\* lines 536-538: the enumeration failed
Except(r) ==
    /\ w[r].pc = "except"
    /\ log_box' = Append(log_box, Line("Error", "", "", 0))
    /\ hist' = [hist EXCEPT ![r] = NoHist]
    /\ w' = [w EXCEPT ![r] = Finishing(FALSE)]
    /\ lastEvent' = "other"
    /\ UNCHANGED <<running, ui, form, stats_box, env, fs, counters>>

\* _finish, lines 543-544: clear the flag, enable Start
FinishFlags(r) ==
    /\ w[r].pc = "finish_flags"
    /\ running' = FALSE
    /\ start_btn' = "normal"
    /\ w' = [w EXCEPT ![r].pc = "finish_stop"]
    /\ lastEvent' = "other"
    /\ UNCHANGED <<stop_btn, form, log_box, stats_box, env, fs, counters, hist>>

\* _finish without its last line: the worker returns after disabling Stop
FinishStopReturns(r) ==
    /\ w[r].pc = "finish_stop"
    /\ stop_btn' = "disabled"
    /\ w' = [w EXCEPT ![r].pc = IF w[r].again THEN "finish_flags" ELSE "done",
                      ![r].again = FALSE]
    /\ lastEvent' = "other"
    /\ UNCHANGED <<running, start_btn, form, log_box, stats_box, env, fs, counters, hist>>

\* _finish, line 545: disable Stop
FinishStop(r) ==
    /\ w[r].pc = "finish_stop"
    /\ stop_btn' = "disabled"
    /\ w' = [w EXCEPT ![r].pc = "finish_scan"]
    /\ lastEvent' = "other"
    /\ UNCHANGED <<running, start_btn, form, log_box, stats_box, env, fs, counters, hist>>

\* where _finish returns to: line 462 returns into finally, which calls it again
AfterFinish(wr) == IF wr.again THEN "finish_flags" ELSE "done"

\* _finish, line 546: refresh the statistics
FinishScan(r) ==
    /\ w[r].pc = "finish_scan"
    /\ stats_box' = ScanSizes(fs, source_var)
    /\ w' = [w EXCEPT ![r].pc = AfterFinish(w[r]), ![r].again = FALSE]
    /\ lastEvent' = "other"
    /\ UNCHANGED <<running, ui, form, env, log_box, fs, counters, hist>>

WorkerStep(r) ==
    \/ Enumerate(r) \/ Empty(r) \/ Check(r) \/ Resolve(r) \/ Transfer(r)
    \/ Summary(r) \/ Except(r) \/ FinishFlags(r) \/ FinishStop(r) \/ FinishScan(r)

Next ==
    \/ Start
    \/ Stop
    \/ \E m \in {"move", "copy"} : SetMode(m)
    \/ \E v \in EditedVars, p \in DestChoices : ChooseDest(v, p)
    \/ \E p \in SourceChoices : EditSource(p)
    \/ RemoveSource
    \/ \E x \in Foreign : ForeignCreate(x[1], x[2])
    \/ \E r \in Runs : WorkerStep(r)

Spec == Init /\ [][Next]_vars

\* The liveness of a run is checked from the forms whose first run has
\* items to transfer.  The threads are scheduled: a worker that can take a
\* step eventually does.
FairInit == Init /\ source_var \in {PSrc, PFile} /\ dest_vars = AllTo(PD1)
FairSpec == FairInit /\ [][Next]_vars /\ \A r \in Runs : WF_vars(WorkerStep(r))

(* ------------- classification and resolution on their own ------------- *)
\* The two computations of the loop body that depend on nothing but their
\* arguments are also applied on their own, to arguments drawn from the sets
\* below.

\* how many of the names n, n(1), n(2), ... a destination may already hold
MaxTaken == 3

\* suffixes as written, each with its lower-case spelling
MixedCase == {<<".JPG", ".jpg">>, <<".Txt", ".txt">>, <<".Mp4", ".mp4">>,
              <<".MP3", ".mp3">>, <<".EXE", ".exe">>, <<".Zip", ".zip">>,
              <<".XYZ", ".xyz">>}
Registered == IMAGE_EXT \cup VIDEO_EXT \cup AUDIO_EXT \cup SETUP_EXT \cup DOC_EXT
                 \cup COMPRESSED_EXT
Suffixes == {<<x, x>> : x \in Registered \cup {".xyz", ".jpg1", ""}} \cup MixedCase

\* the names whose targets are resolved
ProbeNames == {MkName("a", ".JPG"), MkName("notes", ".zip"), MkName("README", "")}

\* a form whose six destinations are told apart
OwnDest == [v \in DestVars |-> "/" \o v]

\* the i-th numbered spelling of a name, written out: the number goes before
\* the extension of a file and after the whole name of a folder
Numbered(n, isdir, i) ==
    IF i = 0 THEN FullName(n)
    ELSE IF isdir THEN n.stem \o n.suffix \o "(" \o ToString(i) \o ")"
    ELSE n.stem \o "(" \o ToString(i) \o ")" \o n.suffix

\* the directory d holding files under the given spellings, and nothing else
DirWith(d, names) ==
    [p \in Paths |-> IF p = d THEN MkDir({MkEntry(MkName(x, ""), "file", "old") : x \in names})
                               ELSE NoPath]

ClassifyInputs ==
    {[op |-> "classify", suf |-> x[1], lc |-> x[2], isdir |-> b, done |-> FALSE,
      out |-> ""] : x \in Suffixes, b \in BOOLEAN}
ResolveInputs ==
    UNION {{[op |-> "resolve", name |-> n, isdir |-> b, done |-> FALSE, out |-> n,
             idx |-> T, taken |-> {Numbered(n, b, i) : i \in T}]
              : T \in SUBSET (0..MaxTaken)} : n \in ProbeNames, b \in BOOLEAN}

PureInit ==
    /\ running = FALSE
    /\ start_btn = "normal"
    /\ stop_btn = "disabled"
    /\ mode_var = "move"
    /\ source_var = PSrc
    /\ dest_vars = AllTo(PD1)
    /\ listing = <<EntA.name, EntN.name, EntB.name>>
    /\ log_box = <<>>
    /\ fs = DirWith(PD1, {})
    /\ stats_box = ScanSizes(fs, source_var)
    /\ w = [r \in Runs |-> NoWorker]
    /\ edits = 0
    /\ faults = 0
    /\ lastEvent = "other"
    /\ hist = [r \in Runs |-> NoHist]
    /\ probe \in ClassifyInputs \cup ResolveInputs

\* lines 472-474 and 491-503 applied to one entry
Classify ==
    /\ probe.op = "classify" /\ ~probe.done
    /\ probe' = [probe EXCEPT !.done = TRUE,
                              !.out = DestFor(OwnDest, probe.isdir, MkName("x", probe.suf))]
    /\ UNCHANGED <<running, ui, form, log_box, stats_box, fs, listing, w, counters,
                   lastEvent, hist>>

\* lines 475-480 and 505-511 applied to one name and one destination
ResolveOne ==
    /\ probe.op = "resolve" /\ ~probe.done
    /\ probe' = [probe EXCEPT !.done = TRUE,
                              !.out = ResolveTarget(DirWith(PD1, probe.taken), PD1,
                                                    probe.name, probe.isdir)]
    /\ UNCHANGED <<running, ui, form, log_box, stats_box, fs, listing, w, counters,
                   lastEvent, hist>>

PureNext == Classify \/ ResolveOne
PureSpec == PureInit /\ [][PureNext]_vars

(* ====================================================================== *)
(* The claims                                                             *)
(* ====================================================================== *)
StartStep == lastEvent' = "start"

\* C1: a Start request issued while some worker has not finished is a
\* no-op: no second worker, running flag and log unchanged.
C1_StartWhileActiveIsNoOp ==
    [][(StartStep /\ Alive # {}) =>
         (w' = w /\ running' = running /\ log_box' = log_box)]_vars

\* C2: when cancellation is requested at the boundary after item i, exactly
\* i items are processed by that run and it begins no further item.
C2_CancelAtBoundary ==
    \A r \in Runs :
        hist[r].cancelAt >= 0 =>
            /\ w[r].processed = hist[r].cancelAt
            /\ w[r].pc \in {"check", "summary"}

\* C3: when cancellation is requested while item i is being transferred,
\* item i is finished and counted, and no item after i is begun.
C3_CancelDuringTransfer ==
    \A r \in Runs :
        hist[r].cancelIn > 0 =>
            \/ w[r].processed = hist[r].cancelIn - 1 /\ w[r].pc \in {"resolve", "transfer"}
            \/ w[r].processed = hist[r].cancelIn /\ w[r].pc \in {"check", "summary"}

\* C5: a run that the user never cancels and whose enumeration succeeds
\* leaves its loop with every item processed and the flag still set, so
\* that its summary line says "completed".
C5_UncancelledRunCompletes ==
    \A r \in Runs :
        (w[r].pc = "summary" /\ hist[r].enumerated /\ ~hist[r].stopped) =>
            (w[r].processed = w[r].total /\ running)

\* C7: a Start whose source is missing or not a directory changes nothing:
\* no worker, running flag, buttons and log as they were.
C7_BadSourceRejected ==
    [][(StartStep /\ ~IsDir(fs, source_var)) =>
         (w' = w /\ running' = running /\ log_box' = log_box /\ ui' = ui /\ fs' = fs)]_vars

\* a Start was just rejected for its source although a log is on display
C7_Witness ==
    /\ lastEvent = "start"
    /\ ~IsDir(fs, source_var)
    /\ ~running /\ Alive = {}
    /\ Len(log_box) > 0

\* C8: a Start with at least one destination not chosen changes nothing.
C8_UnsetDestinationRejected ==
    [][(StartStep /\ \E v \in DestVars : dest_vars[v] = "") =>
         (w' = w /\ running' = running /\ log_box' = log_box /\ ui' = ui /\ fs' = fs)]_vars

\* a Start was just rejected only because a destination is not chosen
C8_Witness ==
    /\ lastEvent = "start"
    /\ \E v \in DestVars : dest_vars[v] = ""
    /\ \E v \in DestVars : dest_vars[v] # ""
    /\ IsDir(fs, source_var)
    /\ ~running /\ Alive = {}

\* C9: a Start with a destination that names a missing directory is
\* rejected: no worker is started and the state stays idle.
C9_MissingDestinationRejected ==
    [][(StartStep /\ \E v \in DestVars : dest_vars[v] # "" /\ ~IsDir(fs, dest_vars[v])) =>
         (w' = w /\ running' = running)]_vars

\* the destination variable _worker reads for a transferred item
VarRead(x) == IF x.isdir THEN "others_var" ELSE DestVarOfSuffix(x.name.suffix)

\* C10: every item of a run is transferred in the mode, and to the
\* destination of its category, that the form held when Start was accepted.
C10_ConfigFixedForRun ==
    \A r \in Runs : \A x \in hist[r].xfers :
        /\ x.mode = hist[r].mode0
        /\ x.dir = hist[r].dest0[VarRead(x)]

\* C4: a failed transfer is logged as "Error processing <name>", is counted,
\* and sends the worker back to the head of the loop, where it goes on to
\* the next item as long as the flag is set.
C4_FailureDoesNotAbort ==
    [][\A r \in Runs :
         /\ (w[r].pc = "transfer" /\ \E x \in hist'[r].xfers \ hist[r].xfers : ~x.ok) =>
               /\ log_box' = Append(log_box,
                      Line("Error processing", FullName(Item(w[r])), "", 0))
               /\ w'[r].processed = w[r].processed + 1
               /\ w'[r].pc = "check"
               /\ w'[r].items = w[r].items /\ w'[r].total = w[r].total
         /\ (w[r].pc = "check" /\ w'[r].pc # "check" /\ running
                /\ w[r].processed < w[r].total) =>
               (w'[r].pc = "resolve" /\ w'[r].processed = w[r].processed)
      ]_vars

\* a worker is on the item that follows one whose transfer failed
C4_Witness ==
    \E r \in Runs :
        /\ w[r].pc = "resolve"
        /\ \E x \in hist[r].xfers : ~x.ok
        /\ \E i \in 1..Len(log_box) : log_box[i].kind = "Error processing"

TerminalLines == {"Operation completed", "Operation stopped", "Error", "No items"}

C11_ResolvedTargetIsFree ==
    (probe.op = "resolve" /\ probe.done) =>
        LET out == FullName(probe.out) IN
        /\ out \notin probe.taken
        /\ ~EntryExists(DirWith(PD1, probe.taken), PD1, out)
        /\ (0 \notin probe.idx => probe.out = probe.name)
        /\ \A k \in 0..MaxTaken :
              ((0..k) \subseteq probe.idx /\ (k + 1) \notin probe.idx) =>
                  out = Numbered(probe.name, probe.isdir, k + 1)

\* a folder whose name has an extension was resolved past two taken names
C11_Witness ==
    /\ probe.op = "resolve" /\ probe.done
    /\ probe.isdir /\ probe.name.suffix # ""
    /\ {0, 1} \subseteq probe.idx /\ 2 \notin probe.idx
    /\ FullName(probe.out) = "notes.zip(2)"

\* C17: a folder is always in the Others category, whatever its name; a
\* file is in the registered category of the lower-case spelling of its
\* extension, and in Others when that spelling is not registered or empty.
C17_EffectiveCategory ==
    (probe.op = "classify" /\ probe.done) =>
        /\ probe.isdir => probe.out = "/others_var"
        /\ ~probe.isdir =>
              /\ probe.lc \in IMAGE_EXT \cup VIDEO_EXT => probe.out = "/images_var"
              /\ probe.lc \in AUDIO_EXT => probe.out = "/audio_var"
              /\ probe.lc \in SETUP_EXT => probe.out = "/setup_var"
              /\ probe.lc \in DOC_EXT => probe.out = "/docs_var"
              /\ probe.lc \in COMPRESSED_EXT => probe.out = "/compressed_var"
              /\ probe.lc \notin Registered => probe.out = "/others_var"

\* a folder named with a registered extension, and a file whose extension
\* is registered only in lower case, have been classified
C17_Witness ==
    /\ probe.op = "classify" /\ probe.done
    /\ \/ probe.isdir /\ probe.lc \in COMPRESSED_EXT
       \/ ~probe.isdir /\ probe.suf # probe.lc /\ probe.out = "/images_var"

\* --- helpers of the claims about transfers ---
\* the step in which run r transfers its current item
TransferBy(r) == w[r].pc = "transfer" /\ w'[r].pc # "transfer"
\* the source entry of the item of run r, if it is still there
SourceEntry(r) == Lookup(fs, w[r].src, FullName(Item(w[r])))
\* what run r records of the transfer it makes in this step
NewXfers(r) == hist'[r].xfers \ hist[r].xfers
\* the elements of a sequence
Range(q) == {q[i] : i \in 1..Len(q)}
\* the directories that serve as destinations
DestDirs == {PD1, PD2, PGone}
\* the steps of the program other than a transfer do not write the file system
OnlyTransfersWrite ==
    (w' # w /\ ~\E r \in Runs : TransferBy(r)) => fs' = fs

\* C12: no step removes or changes an entry that a destination directory
\* holds, and a transfer whose target exists when it is made writes nothing.
C12_NoSilentOverwrite ==
    [][/\ \A p \in DestDirs : \A e \in fs[p].ents : e \in fs'[p].ents
       /\ \A r \in Runs :
            (TransferBy(r) /\ EntryExists(fs, w[r].target.dir, FullName(w[r].target.name)))
                => fs' = fs
      ]_vars

\* C13: when a run all of whose items were transferred in move mode and
\* without failure reaches its summary with processed = total, then total is
\* the number of enumerated entries, every one of them is at its recorded
\* target with the content and kind it had, and none of them is in the source
\* any more; the directory of each target is the destination the form holds
\* for the category of the item (Others for a folder).
C13_MoveRunRelocatesAll ==
    /\ [](\A r \in Runs :
            (/\ w[r].pc = "summary" /\ w[r].processed = w[r].total
             /\ \A x \in hist[r].xfers : x.ok /\ x.mode = "move") =>
                /\ w[r].total = Len(w[r].items)
                /\ \A n \in Range(w[r].items) :
                     /\ ~EntryExists(fs, w[r].src, FullName(n))
                     /\ \E x \in hist[r].xfers :
                          /\ x.name = n
                          /\ \E e \in Lookup(fs, x.dir, FullName(x.tname)) :
                                /\ e.data = x.data
                                /\ e.kind = IF x.isdir THEN "dir" ELSE "file")
    /\ [][\A r \in Runs :
            (w[r].pc = "resolve" /\ w'[r].pc = "transfer") =>
                LET folder == \E e \in SourceEntry(r) : e.kind = "dir" IN
                w'[r].target.dir =
                    dest_vars[IF folder THEN "others_var"
                              ELSE DestVarOfSuffix(Item(w[r]).suffix)]
         ]_vars

\* a move-mode run has relocated a file and a folder and is at its summary
C13_Witness ==
    \E r \in Runs :
        /\ w[r].pc = "summary" /\ w[r].processed = w[r].total /\ w[r].total >= 2
        /\ \A x \in hist[r].xfers : x.ok /\ x.mode = "move"
        /\ \E x \in hist[r].xfers : x.isdir
        /\ \E x \in hist[r].xfers : ~x.isdir /\ x.tname # x.name

\* C14: a transfer made in copy mode leaves the source directory exactly as
\* it was, and when it succeeds the target holds an entry of the same kind
\* and content as the source entry; no other step of a run writes the file
\* system.
C14_CopyLeavesSource ==
    [][/\ OnlyTransfersWrite
       /\ \A r \in Runs :
            (TransferBy(r) /\ mode_var = "copy") =>
                /\ fs'[w[r].src] = fs[w[r].src]
                /\ \A x \in NewXfers(r) : x.ok =>
                     \E e \in SourceEntry(r) :
                         /\ e \in fs'[w[r].src].ents
                         /\ \E e2 \in Lookup(fs', x.dir, FullName(x.tname)) :
                               e2.data = e.data /\ e2.kind = e.kind
      ]_vars

\* a copy-mode run has copied every item and its source still holds them
C14_Witness ==
    \E r \in Runs :
        /\ w[r].pc = "summary" /\ w[r].processed = w[r].total /\ w[r].total >= 2
        /\ \A x \in hist[r].xfers : x.ok /\ x.mode = "copy"
        /\ \A n \in Range(w[r].items) : EntryExists(fs, w[r].src, FullName(n))

\* C15: the summary line says "completed" exactly when every enumerated
\* item was processed, and "stopped" only when an item was left unprocessed.
C15_SummaryIsTrue ==
    [][\A r \in Runs :
         (w[r].pc = "summary" /\ w'[r].pc # "summary") =>
             LET line == log_box'[Len(log_box')] IN
             /\ (line.kind = "Operation completed") <=> (w[r].processed = w[r].total)
             /\ (line.kind = "Operation stopped") => (w[r].processed < w[r].total)
      ]_vars

\* the item lines of a log
ItemKinds == {"Moved", "Copied", "Moved folder", "Copied folder", "Error processing"}
ItemLines(q) == SelectSeq(q, LAMBDA l : l.kind \in ItemKinds)

\* C16: each processed item appends exactly one line to the log, of the form
\* "Moved: X -> Y", "Copied: X -> Y" or "Error processing X", for files and
\* folders alike, and at the item boundary that follows the number of item
\* lines in the log equals processed.
C16_OneLinePerItem ==
    [][\A r \in Runs :
         TransferBy(r) =>
             /\ Len(log_box') = Len(log_box) + 1
             /\ LET line == log_box'[Len(log_box')] IN
                  /\ line.kind \in {"Moved", "Copied", "Error processing"}
                  /\ line.name = FullName(Item(w[r]))
             /\ Len(ItemLines(log_box')) = w'[r].processed
      ]_vars

\* C18: the source is listed in one step: the items are the names it holds
\* then and total is their number; items and total stay as they are for the
\* rest of the run, and every item the run transfers, counts and logs is one
\* of them, so that an entry created later is never touched by the run.
C18_SingleSnapshot ==
    /\ [][\A r \in Runs :
            /\ (w[r].pc = "enum" /\ w'[r].pc \in {"check", "empty"}) =>
                  /\ Range(w'[r].items) = {e.name : e \in fs[w[r].src].ents}
                  /\ w'[r].total = Cardinality(fs[w[r].src].ents)
                  /\ Len(w'[r].items) = w'[r].total
            /\ (w[r].pc \in {"check", "resolve", "transfer"} /\ w'[r].pc \in InRun) =>
                  /\ w'[r].items = w[r].items
                  /\ w'[r].total = w[r].total
            /\ TransferBy(r) =>
                  /\ \A x \in NewXfers(r) : x.name \in Range(w[r].items)
                  /\ log_box'[Len(log_box')].name \in {FullName(n) : n \in Range(w[r].items)}
                  /\ w'[r].processed = w[r].processed + 1
         ]_vars
    /\ [](\A r \in Runs :
            /\ w[r].processed <= w[r].total
            /\ \A x \in hist[r].xfers : x.name \in Range(w[r].items))

\* a run has processed all its items while the source holds an entry that
\* was created after the run listed it
C18_Witness ==
    \E r \in Runs :
        /\ w[r].pc = "summary" /\ w[r].processed = w[r].total /\ w[r].total >= 2
        /\ EntryExists(fs, w[r].src, FullName(EntB.name))
        /\ EntB.name \notin Range(w[r].items)

\* the steps of _finish
FinishPcs == {"finish_flags", "finish_stop", "finish_scan"}

\* C19: when the listing of the source fails, the run writes exactly one
\* line, "Error", to the log, transfers nothing and has processed 0, and it
\* goes on through _finish until its worker has finished.
C19_EnumerationFailure ==
    /\ [][\A r \in Runs :
            /\ (w[r].pc = "enum" /\ ~IsDir(fs, w[r].src) /\ w'[r] # w[r]) =>
                  (w'[r].pc = "except" /\ fs' = fs /\ log_box' = log_box)
            /\ (w[r].pc = "except" /\ w'[r] # w[r]) =>
                  /\ w'[r].pc = "finish_flags"
                  /\ log_box' = Append(log_box, Line("Error", "", "", 0))
                  /\ fs' = fs
            /\ (w[r].pc \in FinishPcs /\ w'[r] # w[r]) =>
                  (log_box' = log_box /\ fs' = fs /\ w'[r].pc \in FinishPcs \cup {"done"})
         ]_vars
    /\ [](\A r \in Runs :
            w[r].pc = "except" => (w[r].processed = 0 /\ hist[r].xfers = {}))
    /\ \A r \in Runs : (w[r].pc = "except") ~> (w[r].pc = "done")

\* a run whose listing failed has ended: its one line is the last of the log
C19_Witness ==
    /\ \E r \in Runs : w[r].pc = "done"
    /\ Alive = {}
    /\ ~IsDir(fs, PSrc)
    /\ Len(log_box) = 1 /\ log_box[1].kind = "Error"

LoopPcs == {"check", "resolve", "transfer", "summary"}

\* C21: in every state 0 <= processed <= total; the listing sets processed
\* to 0; while the run lasts processed changes only in the step that
\* transfers an item, successfully or not, and then grows by exactly 1; an
\* iteration begins only with processed < total; and the loop is left with
\* processed = total unless it is left through the break on the cleared
\* flag (lines 469-470), which is how a cancellation reaches the worker.
C21_ProgressAccounting ==
    /\ [](\A r \in Runs : 0 <= w[r].processed /\ w[r].processed <= w[r].total)
    /\ [][\A r \in Runs :
            /\ (w[r].pc = "enum" /\ w'[r].pc \in {"check", "empty"}) =>
                  w'[r].processed = 0
            /\ (w[r].pc \in LoopPcs /\ w'[r].pc \in LoopPcs) =>
                  w'[r].processed =
                      IF TransferBy(r) THEN w[r].processed + 1 ELSE w[r].processed
            /\ (w[r].pc = "check" /\ w'[r].pc = "resolve") =>
                  w[r].processed < w[r].total
            /\ (w[r].pc = "check" /\ w'[r].pc = "summary" /\ running) =>
                  w[r].processed = w[r].total
         ]_vars

\* a run that was not cut short has counted all its items, one of which
\* failed
C21_Witness ==
    \E r \in Runs :
        /\ w[r].pc = "summary" /\ running
        /\ w[r].processed = w[r].total /\ w[r].total >= 2
        /\ \E x \in hist[r].xfers : ~x.ok
        /\ \E x \in hist[r].xfers : x.ok

\* C22: a worker performs _finish once: after the statistics refresh it has
\* finished and takes no further step; and a worker that clears the flag in
\* _finish does not clear it under a run that is between its listing and its
\* summary.
C22_FinishOnce ==
    [][\A r \in Runs :
         /\ (w[r].pc = "finish_scan" /\ w'[r] # w[r]) => w'[r].pc = "done"
         /\ (w[r].pc = "finish_flags" /\ w'[r] # w[r] /\ running) =>
               \A q \in Runs \ {r} : w[q].pc \notin InRun
      ]_vars

====
